---------------------------- MODULE Spec2Model ----------------------------
(***************************************************************************)
(* A model of unishark's DefaultTestLoader (src/unishark/loader.py): the   *)
(* resolution of a suites/groups configuration into sets of dotted test    *)
(* names through the name tree, and the loading of those names.            *)
(*                                                                         *)
(* Python strings are sequences of one-character strings, so that          *)
(* str.split, str.join and str.startswith are computed, not assumed.       *)
(* Python's None is the empty sequence where the code only tests           *)
(* truthiness (pkg_name, prefix, filter_cls_names).  A key that may be     *)
(* missing from a dict is an option: << >> (absent) or <<v>> (present).    *)
(***************************************************************************)
EXTENDS Integers, Sequences, FiniteSets, TLC

(***************************************************************************)
(* Bounds of the model.                                                    *)
(***************************************************************************)
\* the most groups one suite's 'groups' dict holds
MaxGroups == 2
\* the most entries of one list of a group (targets or exclusions)
MaxNames == 2
\* the longest name given to the NameParser on its own
MaxLen == 5

(***************************************************************************)
(* Strings.                                                                *)
(***************************************************************************)
Dot == "."

\* '.'.join(parts)
RECURSIVE Join(_)
Join(parts) ==
    IF Len(parts) = 0 THEN << >>
    ELSE IF Len(parts) = 1 THEN parts[1]
    ELSE parts[1] \o <<Dot>> \o Join(Tail(parts))

\* s.split('.'): cur is the segment being read, acc the segments read
RECURSIVE SplitFrom(_, _, _, _)
SplitFrom(s, i, cur, acc) ==
    IF i > Len(s) THEN Append(acc, cur)
    ELSE IF s[i] = Dot THEN SplitFrom(s, i + 1, << >>, Append(acc, cur))
    ELSE SplitFrom(s, i + 1, Append(cur, s[i]), acc)

Split(s) == SplitFrom(s, 1, << >>, << >>)

\* s.startswith(prefix)
StartsWith(s, prefix) ==
    /\ Len(s) >= Len(prefix)
    /\ SubSeq(s, 1, Len(prefix)) = prefix

Range(f) == {f[i] : i \in DOMAIN f}

\* the orders in which a set may be iterated
Orders(S) ==
    {p \in [1..Cardinality(S) -> S] :
        \A i, j \in 1..Cardinality(S) : p[i] = p[j] => i = j}

\* options for keys that may be missing
Absent == << >>
Present(v) == <<v>>
IsPresent(o) == Len(o) = 1
Get(o) == o[1]

(***************************************************************************)
(* The names the configurations and the modules use.                       *)
(***************************************************************************)
Mod_m == <<"m">>
Mod_n == <<"n">>
Mod_x == <<"x">>
Pkg_p == <<"p">>
Cls_C == <<"C">>
Cls_D == <<"D">>
Cls_E == <<"E">>
Fn_main == <<"m", "a", "i", "n">>
Mth_test_a == <<"t", "e", "s", "t", "_", "a">>
Mth_test_b == <<"t", "e", "s", "t", "_", "b">>
Mth_test_c == <<"t", "e", "s", "t", "_", "c">>
Mth_helper == <<"h", "e", "l", "p", "e", "r">>
Mth_tes == <<"t", "e", "s">>
Attr_count == <<"c", "o", "u", "n", "t">>
Str_None == <<"N", "o", "n", "e">>

\* DefaultTestLoader.__init__: method_prefix='test'
method_prefix == <<"t", "e", "s", "t">>

(***************************************************************************)
(* Errors.  what is the message's template, args the values it formats.    *)
(***************************************************************************)
NoError == [type |-> "none", what |-> "", args |-> << >>]
Error(type, what, args) == [type |-> type, what |-> what, args |-> args]

(***************************************************************************)
(* The modules pyclbr can read: full module name -> name -> descriptor.    *)
(* m has class C (test_a, helper, test_b, tes), class D (helper only) and  *)
(* a function main; n has class E (test_c); p.m has class C (helper,       *)
(* test_a).  Module x, and p.n, do not exist.                              *)
(***************************************************************************)
PyClass(methods) == [is_class |-> TRUE, methods |-> methods]
PyFunction == [is_class |-> FALSE, methods |-> << >>]

SourceModules ==
    (Mod_m :> ( Cls_C :> PyClass(Mth_test_a :> 2 @@ Mth_helper :> 4
                                 @@ Mth_test_b :> 6 @@ Mth_tes :> 8)
             @@ Cls_D :> PyClass(Mth_helper :> 12)
             @@ Fn_main :> PyFunction ))
    @@ (Mod_n :> ( Cls_E :> PyClass(Mth_test_c :> 2) ))
    @@ (Join(<<Pkg_p, Mod_m>>) :>
            ( Cls_C :> PyClass(Mth_helper :> 2 @@ Mth_test_a :> 4) ))

\* _inspect_module: the full module name
FullModName(pkg_name, mod_name) ==
    IF pkg_name = << >> THEN mod_name ELSE Join(<<pkg_name, mod_name>>)

\* pyclbr.readmodule_ex finds the module
ModuleFound(pkg_name, mod_name) ==
    FullModName(pkg_name, mod_name) \in DOMAIN SourceModules

\* _inspect_module, for a module that is found
InspectModule(pkg_name, mod_name) ==
    SourceModules[FullModName(pkg_name, mod_name)]

\* _get_classes_of_module
GetClassesOfModule(module_content) ==
    [name \in {k \in DOMAIN module_content : module_content[k].is_class}
        |-> module_content[name]]

\* sorted(methods.keys(), key=lambda k: methods[k])
RECURSIVE SortedByLine(_, _)
SortedByLine(methods, keys) ==
    IF keys = {} THEN << >>
    ELSE LET first == CHOOSE k \in keys :
                          \A o \in keys : methods[k] <= methods[o]
         IN  <<first>> \o SortedByLine(methods, keys \ {first})

\* mutant: the method names are not filtered by the prefix
GetMethodNamesByClassNoFilter(cls) ==
    SortedByLine(cls.methods, DOMAIN cls.methods)

\* _get_method_names_by_class
GetMethodNamesByClass(cls) ==
    SelectSeq(SortedByLine(cls.methods, DOMAIN cls.methods),
              LAMBDA name : StartsWith(name, method_prefix))


(***************************************************************************)
(* NameParser.  A result is [err, parts].                                  *)
(***************************************************************************)
\* _get_cls_name_parts
GetClsNameParts(long_name) ==
    LET parts == Split(long_name)
    IN  IF Len(parts) # 2
        THEN [err |-> Error("ValueError",
                            "%r does not comply with: \"module.class\".",
                            <<long_name>>),
              parts |-> << >>]
        ELSE [err |-> NoError, parts |-> <<parts[1], parts[2]>>]

\* _get_mth_name_parts
GetMthNameParts(long_name) ==
    LET parts == Split(long_name)
    IN  IF Len(parts) # 3
        THEN [err |-> Error("ValueError",
                            "%r does not comply with: \"module.class.method\".",
                            <<long_name>>),
              parts |-> << >>]
        ELSE [err |-> NoError, parts |-> <<parts[1], parts[2], parts[3]>>]

(***************************************************************************)
(* NameTree: module name -> class name -> set of method names.             *)
(***************************************************************************)
EmptyTree == << >>

\* del d[key]
DelKey(d, key) == [k \in DOMAIN d \ {key} |-> d[k]]

\* mutant: the class filter is never applied
TruthyNever(filter_cls_names) == FALSE

\* filter_cls_names is truthy: not None and not the empty set
Truthy(filter_cls_names) ==
    IsPresent(filter_cls_names) /\ Get(filter_cls_names) # {}

\* _build_name_tree, lines 209-214: the class's methods enter the tree
InsertMethods(tree, mod_name, cls_name, mth_names) ==
    LET t1 == IF mod_name \in DOMAIN tree THEN tree
              ELSE tree @@ (mod_name :> EmptyTree)
        t2 == IF cls_name \in DOMAIN t1[mod_name] THEN t1
              ELSE [t1 EXCEPT ![mod_name] = @ @@ (cls_name :> {})]
    IN  [t2 EXCEPT ![mod_name][cls_name] = @ \cup Range(mth_names)]

\* _build_name_tree, lines 202-214: the loop over the classes of a module
RECURSIVE AddClasses(_, _, _, _, _)
AddClasses(tree, mod_name, classes, todo, filter_cls_names) ==
    IF todo = {} THEN tree
    ELSE LET cls_name == CHOOSE c \in todo : TRUE
             long_cls_name == Join(<<mod_name, cls_name>>)
             mth_names == GetMethodNamesByClass(classes[cls_name])
             next ==
                 IF Truthy(filter_cls_names)
                    /\ long_cls_name \notin Get(filter_cls_names)
                 THEN tree
                 ELSE IF mth_names = << >> THEN tree
                 ELSE InsertMethods(tree, mod_name, cls_name, mth_names)
         IN  AddClasses(next, mod_name, classes, todo \ {cls_name},
                        filter_cls_names)

\* _build_name_tree, lines 197-214: the loop over modules that are found
RECURSIVE AddModules(_, _, _, _)
AddModules(tree, pkg_name, todo, filter_cls_names) ==
    IF todo = {} THEN tree
    ELSE LET mod_name == CHOOSE m \in todo : TRUE
             classes == GetClassesOfModule(InspectModule(pkg_name, mod_name))
             next == IF DOMAIN classes = {} THEN tree
                     ELSE AddClasses(tree, mod_name, classes, DOMAIN classes,
                                     filter_cls_names)
         IN  AddModules(next, pkg_name, todo \ {mod_name}, filter_cls_names)

\* _build_name_tree over modules that are all found: starts from dict()
BuildNameTree(pkg_name, mod_names, filter_cls_names) ==
    AddModules(EmptyTree, pkg_name, mod_names, filter_cls_names)

\* mutant: a module left without classes is not pruned
DelClsInNameTreeNoPrune(tree, mod_name, cls_name) ==
    LET long_cls_name == Join(<<mod_name, cls_name>>)
    IN  IF mod_name \notin DOMAIN tree
        THEN [tree |-> tree,
              err |-> Error("ValueError",
                            "Cannot exclude %r: %r not found in modules list.",
                            <<long_cls_name, mod_name>>)]
        ELSE IF cls_name \notin DOMAIN tree[mod_name]
        THEN [tree |-> tree,
              err |-> Error("ValueError",
                            "Cannot exclude %r: %r not found in %r.",
                            <<long_cls_name, cls_name, mod_name>>)]
        ELSE [tree |-> [tree EXCEPT ![mod_name] = DelKey(@, cls_name)],
              err |-> NoError]

\* _del_cls_in_name_tree: [tree, err]
DelClsInNameTree(tree, mod_name, cls_name) ==
    LET long_cls_name == Join(<<mod_name, cls_name>>)
    IN  IF mod_name \notin DOMAIN tree
        THEN [tree |-> tree,
              err |-> Error("ValueError",
                            "Cannot exclude %r: %r not found in modules list.",
                            <<long_cls_name, mod_name>>)]
        ELSE IF cls_name \notin DOMAIN tree[mod_name]
        THEN [tree |-> tree,
              err |-> Error("ValueError",
                            "Cannot exclude %r: %r not found in %r.",
                            <<long_cls_name, cls_name, mod_name>>)]
        ELSE LET t1 == [tree EXCEPT ![mod_name] = DelKey(@, cls_name)]
                 t2 == IF DOMAIN t1[mod_name] = {} THEN DelKey(t1, mod_name)
                       ELSE t1
             IN  [tree |-> t2, err |-> NoError]

\* mutant: deleting a method deletes its whole class
DelMthInNameTreeWholeClass(tree, mod_name, cls_name, mth_name) ==
    LET long_mth_name == Join(<<mod_name, cls_name, mth_name>>)
    IN  IF mod_name \notin DOMAIN tree
        THEN [tree |-> tree,
              err |-> Error("ValueError",
                            "Cannot exclude %r: %r not found in modules list.",
                            <<long_mth_name, mod_name>>)]
        ELSE IF cls_name \notin DOMAIN tree[mod_name]
        THEN [tree |-> tree,
              err |-> Error("ValueError",
                            "Cannot exclude %r: %r not found in %r.",
                            <<long_mth_name, cls_name, mod_name>>)]
        ELSE IF mth_name \notin tree[mod_name][cls_name]
        THEN [tree |-> tree,
              err |-> Error("ValueError",
                            "Cannot exclude %r: %r not found in %r.",
                            <<long_mth_name, mth_name, cls_name>>)]
        ELSE LET t2 == [tree EXCEPT ![mod_name] = DelKey(@, cls_name)]
                 t3 == IF DOMAIN t2[mod_name] = {} THEN DelKey(t2, mod_name)
                       ELSE t2
             IN  [tree |-> t3, err |-> NoError]

\* mutant: a method that is not in its class is skipped in silence
DelMthInNameTreeSilent(tree, mod_name, cls_name, mth_name) ==
    LET long_mth_name == Join(<<mod_name, cls_name, mth_name>>)
    IN  IF mod_name \notin DOMAIN tree
        THEN [tree |-> tree,
              err |-> Error("ValueError",
                            "Cannot exclude %r: %r not found in modules list.",
                            <<long_mth_name, mod_name>>)]
        ELSE IF cls_name \notin DOMAIN tree[mod_name]
        THEN [tree |-> tree,
              err |-> Error("ValueError",
                            "Cannot exclude %r: %r not found in %r.",
                            <<long_mth_name, cls_name, mod_name>>)]
        ELSE IF mth_name \notin tree[mod_name][cls_name]
        THEN [tree |-> tree, err |-> NoError]
        ELSE LET t1 == [tree EXCEPT ![mod_name][cls_name] = @ \ {mth_name}]
                 t2 == IF t1[mod_name][cls_name] = {}
                       THEN [t1 EXCEPT ![mod_name] = DelKey(@, cls_name)]
                       ELSE t1
                 t3 == IF DOMAIN t2[mod_name] = {} THEN DelKey(t2, mod_name)
                       ELSE t2
             IN  [tree |-> t3, err |-> NoError]

\* _del_mth_in_name_tree: [tree, err]
DelMthInNameTree(tree, mod_name, cls_name, mth_name) ==
    LET long_mth_name == Join(<<mod_name, cls_name, mth_name>>)
    IN  IF mod_name \notin DOMAIN tree
        THEN [tree |-> tree,
              err |-> Error("ValueError",
                            "Cannot exclude %r: %r not found in modules list.",
                            <<long_mth_name, mod_name>>)]
        ELSE IF cls_name \notin DOMAIN tree[mod_name]
        THEN [tree |-> tree,
              err |-> Error("ValueError",
                            "Cannot exclude %r: %r not found in %r.",
                            <<long_mth_name, cls_name, mod_name>>)]
        ELSE IF mth_name \notin tree[mod_name][cls_name]
        THEN [tree |-> tree,
              err |-> Error("ValueError",
                            "Cannot exclude %r: %r not found in %r.",
                            <<long_mth_name, mth_name, cls_name>>)]
        ELSE LET t1 == [tree EXCEPT ![mod_name][cls_name] = @ \ {mth_name}]
                 t2 == IF t1[mod_name][cls_name] = {}
                       THEN [t1 EXCEPT ![mod_name] = DelKey(@, cls_name)]
                       ELSE t1
                 t3 == IF DOMAIN t2[mod_name] = {} THEN DelKey(t2, mod_name)
                       ELSE t2
             IN  [tree |-> t3, err |-> NoError]

\* _del_except_classes_in_name_tree, its set iterated in the given order:
\* [tree, err]; the first entry that raises ends the loop
RECURSIVE DelExceptClassesInNameTree(_, _)
DelExceptClassesInNameTree(tree, order) ==
    IF Len(order) = 0 THEN [tree |-> tree, err |-> NoError]
    ELSE LET parsed == GetClsNameParts(order[1])
             out == DelClsInNameTree(tree, parsed.parts[1], parsed.parts[2])
         IN  IF parsed.err # NoError THEN [tree |-> tree, err |-> parsed.err]
             ELSE IF out.err # NoError THEN out
             ELSE DelExceptClassesInNameTree(out.tree, Tail(order))

\* _del_except_methods_in_name_tree, its set iterated in the given order
RECURSIVE DelExceptMethodsInNameTree(_, _)
DelExceptMethodsInNameTree(tree, order) ==
    IF Len(order) = 0 THEN [tree |-> tree, err |-> NoError]
    ELSE LET parsed == GetMthNameParts(order[1])
             out == DelMthInNameTree(tree, parsed.parts[1], parsed.parts[2],
                                     parsed.parts[3])
         IN  IF parsed.err # NoError THEN [tree |-> tree, err |-> parsed.err]
             ELSE IF out.err # NoError THEN out
             ELSE DelExceptMethodsInNameTree(out.tree, Tail(order))

\* '.'.join((prefix, name)) if prefix else name
Dotted(prefix, name) ==
    IF prefix # << >> THEN Join(<<prefix, name>>) ELSE name

RECURSIVE ConcatAll(_)
ConcatAll(lists) ==
    IF Len(lists) = 0 THEN << >> ELSE lists[1] \o ConcatAll(Tail(lists))

\* _get_dotted_names_dfs: the lists the traversal can append, one for each
\* order in which the dicts and sets can be iterated.  depth 0 is a set of
\* method names (a leaf level), depth 1 a class dict, depth 2 the tree.
RECURSIVE GetDottedNamesDfs(_, _, _)
GetDottedNamesDfs(tree, prefix, depth) ==
    IF depth = 0
    THEN {[i \in 1..Len(p) |-> Dotted(prefix, p[i])] : p \in Orders(tree)}
    ELSE LET Sub(name) ==
                 GetDottedNamesDfs(tree[name], Dotted(prefix, name), depth - 1)
             All == UNION {Sub(name) : name \in DOMAIN tree}
         IN  UNION {
               {ConcatAll(c) :
                   c \in {f \in [1..Len(p) -> All] :
                             \A i \in 1..Len(p) : f[i] \in Sub(p[i])}}
               : p \in Orders(DOMAIN tree)}

\* mutant: the traversal is run twice into the same list
GetFullMethodNamesFromTreeTwice(tree, pkg_name) ==
    {names \o names : names \in GetDottedNamesDfs(tree, pkg_name, 2)}

\* _get_full_method_names_from_tree: the lists it can return
GetFullMethodNamesFromTree(tree, pkg_name) ==
    GetDottedNamesDfs(tree, pkg_name, 2)

(***************************************************************************)
(* CaseLoader.  The objects the interpreter can import and reach by        *)
(* attribute lookup: path -> kind.  m.C, n.E and p.m.C are TestCase        *)
(* subclasses, m.D is a plain class, n.E.test_c is a static method,        *)
(* m.C.count is a class attribute that is no function.                     *)
(***************************************************************************)
RuntimeObjects ==
       <<Mod_m>> :> "module"
    @@ <<Mod_m, Cls_C>> :> "testcase_class"
    @@ <<Mod_m, Cls_C, Mth_test_a>> :> "function"
    @@ <<Mod_m, Cls_C, Mth_test_b>> :> "function"
    @@ <<Mod_m, Cls_C, Mth_helper>> :> "function"
    @@ <<Mod_m, Cls_C, Mth_tes>> :> "function"
    @@ <<Mod_m, Cls_C, Attr_count>> :> "value"
    @@ <<Mod_m, Cls_D>> :> "class"
    @@ <<Mod_m, Cls_D, Mth_helper>> :> "function"
    @@ <<Mod_m, Fn_main>> :> "function"
    @@ <<Mod_n>> :> "module"
    @@ <<Mod_n, Cls_E>> :> "testcase_class"
    @@ <<Mod_n, Cls_E, Mth_test_c>> :> "staticmethod"
    @@ <<Pkg_p>> :> "module"
    @@ <<Pkg_p, Mod_m>> :> "module"
    @@ <<Pkg_p, Mod_m, Cls_C>> :> "testcase_class"
    @@ <<Pkg_p, Mod_m, Cls_C, Mth_test_a>> :> "function"
    @@ <<Pkg_p, Mod_m, Cls_C, Mth_helper>> :> "function"

\* __import__('.'.join(parts)) succeeds
Importable(parts) ==
    \A k \in 1..Len(parts) :
        /\ SubSeq(parts, 1, k) \in DOMAIN RuntimeObjects
        /\ RuntimeObjects[SubSeq(parts, 1, k)] = "module"

\* isinstance(obj, types.FunctionType): a static method read from its class
\* or from an instance is a plain function
IsFunctionType(kind) == kind \in {"function", "staticmethod"}

\* mutant: a static method of a test-case class is not filtered out
MakeCaseFromFullNameKeepingStatic(name) ==
    LET name_parts == Split(name)
        importable == {k \in 1..Len(name_parts) :
                          Importable(SubSeq(name_parts, 1, k))}
        missing == {k \in 1..Len(name_parts) :
                          SubSeq(name_parts, 1, k) \notin DOMAIN RuntimeObjects}
        obj == RuntimeObjects[name_parts]
        parent == IF Len(name_parts) >= 2
                  THEN RuntimeObjects[SubSeq(name_parts, 1, Len(name_parts) - 1)]
                  ELSE "none"
    IN  IF importable = {}
        THEN [err |-> Error("ImportError", "No module named %r", <<name>>),
              case |-> Absent]
        ELSE IF missing # {}
        THEN [err |-> Error("AttributeError", "%r has no attribute %r", <<name>>),
              case |-> Absent]
        ELSE IF ~IsFunctionType(obj)
        THEN [err |-> Error("TypeError", "", <<name>>), case |-> Absent]
        ELSE IF parent = "testcase_class"
        THEN [err |-> NoError, case |-> Present(name)]
        ELSE [err |-> NoError, case |-> Absent]

\* _make_case_from_full_name: [err, case]; case is an option, absent for None
MakeCaseFromFullName(name) ==
    LET name_parts == Split(name)
        importable == {k \in 1..Len(name_parts) :
                          Importable(SubSeq(name_parts, 1, k))}
        missing == {k \in 1..Len(name_parts) :
                          SubSeq(name_parts, 1, k) \notin DOMAIN RuntimeObjects}
        obj == RuntimeObjects[name_parts]
        parent == IF Len(name_parts) >= 2
                  THEN RuntimeObjects[SubSeq(name_parts, 1, Len(name_parts) - 1)]
                  ELSE "none"
    IN  IF importable = {}
        THEN [err |-> Error("ImportError", "No module named %r", <<name>>),
              case |-> Absent]
        ELSE IF missing # {}
        THEN [err |-> Error("AttributeError", "%r has no attribute %r", <<name>>),
              case |-> Absent]
        ELSE IF ~IsFunctionType(obj)
        THEN [err |-> Error("TypeError", "", <<name>>), case |-> Absent]
        ELSE IF parent = "testcase_class"
        THEN IF obj # "staticmethod"
             THEN [err |-> NoError, case |-> Present(name)]
             ELSE [err |-> NoError, case |-> Absent]
        ELSE [err |-> NoError, case |-> Absent]

(***************************************************************************)
(* Configurations.  A group is a record; the lists of a group are sets,    *)
(* since the code reads each of them through set(...) only.                *)
(***************************************************************************)
Name_mC == Join(<<Mod_m, Cls_C>>)
Name_mD == Join(<<Mod_m, Cls_D>>)
Name_nE == Join(<<Mod_n, Cls_E>>)
Name_xC == Join(<<Mod_x, Cls_C>>)
Name_mC_test_a == Join(<<Mod_m, Cls_C, Mth_test_a>>)
Name_mC_test_b == Join(<<Mod_m, Cls_C, Mth_test_b>>)
Name_mC_helper == Join(<<Mod_m, Cls_C, Mth_helper>>)
Name_mC_count == Join(<<Mod_m, Cls_C, Attr_count>>)
Name_nE_test_c == Join(<<Mod_n, Cls_E, Mth_test_c>>)

ModulePool == {Mod_m, Mod_n, Mod_x}
\* m.D has no test method, x is no module, 'm' is no "module.class"
ClassPool == {Name_mC, Name_mD, Name_nE, Name_xC, Mod_m}
ExceptClassPool == {Name_mC, Name_mD, Name_nE, Mod_m}
\* 'm.C' is no "module.class.method"
MethodPool == {Name_mC_test_a, Name_nE_test_c, Name_mC_count, Name_mC}
ExceptMethodPool == {Name_mC_test_a, Name_mC_test_b, Name_mC_helper, Name_mC}

UpTo(pool) == {S \in SUBSET pool : Cardinality(S) <= MaxNames}
OptUpTo(pool) == {Absent} \cup {Present(S) : S \in UpTo(pool)}

Group(disable, granularity, modules, classes, methods, exc, exm) ==
    [disable |-> disable, granularity |-> granularity, modules |-> modules,
     classes |-> classes, methods |-> methods,
     except_classes |-> exc, except_methods |-> exm]

NoGroup == Group(FALSE, "", {}, {}, {}, Absent, Absent)

ModuleGroups ==
    {Group(FALSE, "module", ms, {}, {}, exc, exm) :
        ms \in UpTo(ModulePool), exc \in OptUpTo(ExceptClassPool),
        exm \in OptUpTo(ExceptMethodPool)}
ClassGroups ==
    {Group(FALSE, "class", {}, cs, {}, Absent, exm) :
        cs \in UpTo(ClassPool), exm \in OptUpTo(ExceptMethodPool)}
MethodGroups ==
    {Group(FALSE, "method", {}, {}, ms, Absent, Absent) : ms \in UpTo(MethodPool)}
\* a granularity that is none of the three
OtherGroup == Group(FALSE, "package", {Mod_m}, {}, {}, Absent, Absent)

\* groups every suite may hold, at any place
CoreGroups ==
    { Group(FALSE, "module", {Mod_m}, {}, {}, Absent, Absent),
      Group(FALSE, "module", {Mod_m}, {}, {}, Absent, Present({Name_mC_test_b})),
      Group(FALSE, "module", {Mod_n}, {}, {}, Absent, Present({Name_mC_test_b})),
      Group(FALSE, "class", {}, {Name_mC}, {}, Absent, Absent),
      Group(FALSE, "method", {}, {}, {Name_mC_test_a, Name_nE_test_c},
            Absent, Absent),
      OtherGroup }

\* disabled groups: valid, of no legal granularity, naming a module that does
\* not exist, with a malformed name, with an exclusion that names nothing
DisabledGroups ==
    { Group(TRUE, "module", {Mod_m}, {}, {}, Absent, Absent),
      Group(TRUE, "package", {Mod_m}, {}, {}, Absent, Absent),
      Group(TRUE, "module", {Mod_x}, {}, {}, Absent, Absent),
      Group(TRUE, "method", {}, {}, {Name_mC}, Absent, Absent),
      Group(TRUE, "module", {Mod_m}, {}, {}, Present({Name_mD}), Absent) }

GroupPool ==
    ModuleGroups \cup ClassGroups \cup MethodGroups \cup {OtherGroup}
        \cup CoreGroups \cup DisabledGroups

\* test['suites']
SuiteLists == { << >>, <<"S1">>, <<"S1", "S2">> }

\* suite['package']: missing, '', 'p', 'None' (a package of that name does
\* not exist among the modules)
PackageConfs == {Absent, Present(<< >>), Present(Pkg_p), Present(Str_None)}

\* suite['max_workers']: missing, 0, 2, '3'
WorkerValue(is_str, text) == [is_str |-> is_str, text |-> text]
WorkerConfs ==
    { Absent, Present(WorkerValue(FALSE, <<"0">>)),
      Present(WorkerValue(FALSE, <<"2">>)), Present(WorkerValue(TRUE, <<"3">>)) }

DigitValue ==
    "0" :> 0 @@ "1" :> 1 @@ "2" :> 2 @@ "3" :> 3 @@ "4" :> 4
    @@ "5" :> 5 @@ "6" :> 6 @@ "7" :> 7 @@ "8" :> 8 @@ "9" :> 9

RECURSIVE DigitsValue(_)
DigitsValue(text) ==
    IF Len(text) = 0 THEN 0
    ELSE 10 * DigitsValue(SubSeq(text, 1, Len(text) - 1))
         + DigitValue[text[Len(text)]]

\* int(value), of an int or of a string of decimal digits with its sign
IntOf(value) ==
    IF Len(value.text) > 0 /\ value.text[1] = "-"
    THEN 0 - DigitsValue(Tail(value.text))
    ELSE DigitsValue(value.text)

(***************************************************************************)
(* What a group is meant to resolve to, read off the modules directly      *)
(* (no tree): the (module, class, method) triples of the test methods.     *)
(***************************************************************************)
TestLeaves(pkg_name, mod_names) ==
    UNION { UNION { { <<m, c, x>> :
                        x \in {y \in DOMAIN InspectModule(pkg_name, m)[c].methods :
                                  StartsWith(y, method_prefix)} }
                    : c \in {k \in DOMAIN InspectModule(pkg_name, m) :
                                InspectModule(pkg_name, m)[k].is_class} }
            : m \in {mm \in mod_names : ModuleFound(pkg_name, mm)} }

WellFormed(name, arity) ==
    Len(Split(name)) = arity

OptSet(o) == IF IsPresent(o) THEN Get(o) ELSE {}

\* the leaves a module- or class-granularity group includes
IncludedLeaves(pkg_name, g) ==
    IF g.granularity = "module" THEN TestLeaves(pkg_name, g.modules)
    ELSE {l \in TestLeaves(pkg_name, {Split(c)[1] : c \in g.classes}) :
             Join(<<l[1], l[2]>>) \in g.classes}

\* the included leaves that no exclusion of the group names
KeptLeaves(pkg_name, g) ==
    {l \in IncludedLeaves(pkg_name, g) :
        /\ Join(<<l[1], l[2]>>) \notin OptSet(g.except_classes)
        /\ Join(l) \notin OptSet(g.except_methods)}

\* the names a group is meant to contribute
ExpectedNames(pkg_name, g) ==
    IF g.granularity = "method"
    THEN {Dotted(pkg_name, name) : name \in g.methods}
    ELSE {Dotted(pkg_name, Join(l)) : l \in KeptLeaves(pkg_name, g)}

\* the group has no configuration error: its names are well formed, its
\* modules exist, and each exclusion names something that is in the tree
\* when the exclusion is applied
ValidGroup(pkg_name, g) ==
    CASE g.granularity = "module" ->
           /\ \A m \in g.modules : ModuleFound(pkg_name, m)
           /\ \A c \in OptSet(g.except_classes) :
                 /\ WellFormed(c, 2)
                 /\ \E l \in IncludedLeaves(pkg_name, g) : Join(<<l[1], l[2]>>) = c
           /\ \A x \in OptSet(g.except_methods) :
                 /\ WellFormed(x, 3)
                 /\ \E l \in IncludedLeaves(pkg_name, g) :
                       /\ Join(l) = x
                       /\ Join(<<l[1], l[2]>>) \notin OptSet(g.except_classes)
      [] g.granularity = "class" ->
           /\ \A c \in g.classes : WellFormed(c, 2)
           /\ \A c \in g.classes : ModuleFound(pkg_name, Split(c)[1])
           /\ \A x \in OptSet(g.except_methods) :
                 /\ WellFormed(x, 3)
                 /\ \E l \in IncludedLeaves(pkg_name, g) : Join(l) = x
      [] g.granularity = "method" ->
           \A x \in g.methods : WellFormed(x, 3)
      [] OTHER -> FALSE

(***************************************************************************)
(* The state of one load_test_from_dict call.                              *)
(***************************************************************************)
VARIABLES
    pc,                 \* where the call is
    test_suites,        \* dict_conf['test']['suites']
    suite_idx,          \* how many of test_suites the parse loop has started
    pkg_name,           \* _parse_tests_from_dict: pkg_name ('' for None)
    groups_seen,        \* how many groups of the suite the loop has read
    group,              \* _parse_tests_from_dict: group
    except_left,        \* _del_except_*_in_name_tree: entries still to visit
    name_tree,          \* self._name_tree (the empty dict for None)
    full_method_names,  \* the list a group is about to extend the names with
    test_cases_names,   \* _parse_tests_from_dict: test_cases_names
    res_suites,         \* _parse_tests_from_dict: res_suites
    load_idx,           \* how many items of res_suites have been loaded
    suites_dict,        \* load_test_from_dict: suites_dict
    result,             \* what load_test_from_dict returned, as an option
    err,                \* the exception that left the call, or NoError
    expected,           \* history: the union of ExpectedNames of the suite's
                        \* groups read so far that are not disabled
    workers_conf,       \* history: suite name -> the suite['max_workers'] read
    parse_name,         \* NameParser on its own: the name given
    parse_out           \* NameParser on its own: what came back

vars == <<pc, test_suites, suite_idx, pkg_name, groups_seen, group, except_left,
          name_tree, full_method_names, test_cases_names, res_suites, load_idx,
          suites_dict, result, err, expected, workers_conf, parse_name,
          parse_out>>

NoOut == [fn |-> "", err |-> NoError, parts |-> << >>]

\* d[key] = value
Put(d, key, value) ==
    [k \in DOMAIN d \cup {key} |-> IF k = key THEN value ELSE d[k]]

Init ==
    /\ pc = "suites"
    /\ test_suites \in SuiteLists
    /\ suite_idx = 0
    /\ pkg_name = << >>
    /\ groups_seen = 0
    /\ group = NoGroup
    /\ except_left = {}
    /\ name_tree = EmptyTree
    /\ full_method_names = << >>
    /\ test_cases_names = << >>
    /\ res_suites = << >>
    /\ load_idx = 0
    /\ suites_dict = << >>
    /\ result = Absent
    /\ err = NoError
    /\ expected = {}
    /\ workers_conf = << >>
    /\ parse_name = << >>
    /\ parse_out = NoOut

\* an exception leaves the call
Raise(e) ==
    /\ err' = e
    /\ pc' = "raised"

\* lines 86-88: pkg_name
PkgNameOf(package) ==
    IF IsPresent(package) /\ Get(package) # << >> THEN Get(package) ELSE << >>

\* mutant: the disable flag is not looked at
BranchIgnoringDisable(g) ==
    IF g.granularity = "module" THEN "module"
    ELSE IF g.granularity = "class" THEN "class"
    ELSE IF g.granularity = "method" THEN "method"
    ELSE "error"

\* mutant: the last branch takes any other granularity for 'method'
BranchDefaultMethod(g) ==
    IF g.disable THEN "skip"
    ELSE IF g.granularity = "module" THEN "module"
    ELSE IF g.granularity = "class" THEN "class"
    ELSE "method"

\* lines 93-125: the branch a group takes
Branch(g) ==
    IF g.disable THEN "skip"
    ELSE IF g.granularity = "module" THEN "module"
    ELSE IF g.granularity = "class" THEN "class"
    ELSE IF g.granularity = "method" THEN "method"
    ELSE "error"

\* the groups the next group is drawn from: the first group of the first
\* suite is any group, every later one a core group or a disabled group
GroupChoices ==
    IF suite_idx = 1 /\ groups_seen = 0 THEN GroupPool
    ELSE CoreGroups \cup DisabledGroups

\* the for loops of _del_except_classes_in_name_tree and
\* _del_except_methods_in_name_tree start, or have nothing to visit
StartDelMethods(g) ==
    IF IsPresent(g.except_methods) /\ Get(g.except_methods) # {}
    THEN [pc |-> "del_methods", left |-> Get(g.except_methods)]
    ELSE [pc |-> "flatten", left |-> {}]

\* mutant: except_classes is not applied
StartDelClassesSkipped(g) == StartDelMethods(g)

StartDelClasses(g) ==
    IF IsPresent(g.except_classes) /\ Get(g.except_classes) # {}
    THEN [pc |-> "del_classes", left |-> Get(g.except_classes)]
    ELSE StartDelMethods(g)

\* mutant: the build adds to the tree that is there
BuildOutcomesKeepingTree(pkg, mod_names, filter_cls_names) ==
    {[tree |-> AddModules(name_tree, pkg,
                          {m \in mod_names : ModuleFound(pkg, m)},
                          filter_cls_names),
      err |-> IF \A m \in mod_names : ModuleFound(pkg, m) THEN NoError
              ELSE Error("ImportError", "No module named %r", << >>)]}

\* mutant: a module that is not found is passed over
BuildOutcomesSkippingMissing(pkg, mod_names, filter_cls_names) ==
    {[tree |-> BuildNameTree(pkg, {m \in mod_names : ModuleFound(pkg, m)},
                             filter_cls_names),
      err |-> NoError]}

\* _build_name_tree: what a call can leave, [tree, err].  A module that is
\* not found raises out of the loop, after the modules visited before it.
BuildOutcomes(pkg, mod_names, filter_cls_names) ==
    LET missing == {m \in mod_names : ~ModuleFound(pkg, m)}
    IN  IF missing = {}
        THEN {[tree |-> BuildNameTree(pkg, mod_names, filter_cls_names),
               err |-> NoError]}
        ELSE {[tree |-> BuildNameTree(pkg, done, filter_cls_names),
               err |-> Error("ImportError", "No module named %r",
                             <<FullModName(pkg, bad)>>)] :
                 bad \in missing, done \in SUBSET (mod_names \ missing)}

\* mutant: the package is not put before the names
FullMthNamesNoPackage(pkg, long_mth_names) == long_mth_names

\* lines 121-122: full_mth_names
FullMthNames(pkg, long_mth_names) ==
    IF pkg # << >>
    THEN {Join(<<pkg, x>>) : x \in long_mth_names}
    ELSE long_mth_names

\* mutant: the list is replaced, not extended
ExtendReplacing(names, more) == more

\* list.extend
Extend(names, more) == names \o more

\* lines 126: max_workers
MaxWorkersOf(workers) ==
    IF IsPresent(workers) THEN IntOf(Get(workers)) ELSE 1

\* line 128: 'package'
PackageOf(pkg) == IF pkg # << >> THEN pkg ELSE Str_None

(***************************************************************************)
(* _parse_tests_from_dict.                                                 *)
(***************************************************************************)
\* lines 84-90: the suite loop starts a suite
ParseNextSuite ==
    /\ pc = "suites"
    /\ suite_idx < Len(test_suites)
    /\ \E package \in PackageConfs : pkg_name' = PkgNameOf(package)
    /\ suite_idx' = suite_idx + 1
    /\ groups_seen' = 0
    /\ test_cases_names' = << >>
    /\ expected' = {}
    /\ pc' = "groups"
    /\ UNCHANGED <<test_suites, group, except_left, name_tree,
                   full_method_names, res_suites, load_idx, suites_dict,
                   result, err, workers_conf, parse_name, parse_out>>

\* lines 91-92: the group loop reads the next group
ReadGroup ==
    /\ pc = "groups"
    /\ groups_seen < MaxGroups
    /\ \E g \in GroupChoices :
          /\ group' = g
          /\ expected' = IF g.disable THEN expected
                         ELSE expected \cup ExpectedNames(pkg_name, g)
    /\ groups_seen' = groups_seen + 1
    /\ pc' = "dispatch"
    /\ UNCHANGED <<test_suites, suite_idx, pkg_name, except_left, name_tree,
                   full_method_names, test_cases_names, res_suites, load_idx,
                   suites_dict, result, err, workers_conf, parse_name,
                   parse_out>>

\* lines 93-94: a disabled group is skipped
SkipDisabled ==
    /\ pc = "dispatch"
    /\ Branch(group) = "skip"
    /\ pc' = "groups"
    /\ UNCHANGED <<test_suites, suite_idx, pkg_name, groups_seen, group, except_left,
                   name_tree, full_method_names, test_cases_names, res_suites,
                   load_idx, suites_dict, result, err, expected, workers_conf,
                   parse_name, parse_out>>

\* lines 96-99: a module group builds the tree
ModuleGroup ==
    /\ pc = "dispatch"
    /\ Branch(group) = "module"
    /\ \E out \in BuildOutcomes(pkg_name, group.modules, Absent) :
          /\ name_tree' = out.tree
          /\ IF out.err # NoError
             THEN Raise(out.err) /\ UNCHANGED except_left
             ELSE /\ pc' = StartDelClasses(group).pc
                  /\ except_left' = StartDelClasses(group).left
                  /\ UNCHANGED err
    /\ UNCHANGED <<test_suites, suite_idx, pkg_name, groups_seen, group,
                   full_method_names, test_cases_names, res_suites, load_idx,
                   suites_dict, result, expected, workers_conf, parse_name,
                   parse_out>>

\* lines 105-112: a class group parses its names and builds the tree
ClassGroup ==
    /\ pc = "dispatch"
    /\ Branch(group) = "class"
    /\ LET malformed == {c \in group.classes : GetClsNameParts(c).err # NoError}
           mod_names == {GetClsNameParts(c).parts[1] : c \in group.classes}
       IN  IF malformed # {}
           THEN /\ \E bad \in malformed : Raise(GetClsNameParts(bad).err)
                /\ UNCHANGED <<name_tree, except_left>>
           ELSE \E out \in BuildOutcomes(pkg_name, mod_names,
                                         Present(group.classes)) :
                  /\ name_tree' = out.tree
                  /\ IF out.err # NoError
                     THEN Raise(out.err) /\ UNCHANGED except_left
                     ELSE /\ pc' = StartDelMethods(group).pc
                          /\ except_left' = StartDelMethods(group).left
                          /\ UNCHANGED err
    /\ UNCHANGED <<test_suites, suite_idx, pkg_name, groups_seen, group,
                   full_method_names, test_cases_names, res_suites, load_idx,
                   suites_dict, result, expected, workers_conf, parse_name,
                   parse_out>>

\* lines 116-122: a method group validates its names and prefixes them
MethodGroup ==
    /\ pc = "dispatch"
    /\ Branch(group) = "method"
    /\ LET malformed == {x \in group.methods : GetMthNameParts(x).err # NoError}
       IN  IF malformed # {}
           THEN /\ \E bad \in malformed : Raise(GetMthNameParts(bad).err)
                /\ UNCHANGED full_method_names
           ELSE /\ \E order \in Orders(FullMthNames(pkg_name, group.methods)) :
                      full_method_names' = order
                /\ pc' = "extend"
                /\ UNCHANGED err
    /\ UNCHANGED <<test_suites, suite_idx, pkg_name, groups_seen, group,
                   except_left, name_tree, test_cases_names, res_suites,
                   load_idx, suites_dict, result, expected, workers_conf,
                   parse_name, parse_out>>

\* lines 124-125: any other granularity
OtherGranularity ==
    /\ pc = "dispatch"
    /\ Branch(group) = "error"
    /\ Raise(Error("ValueError",
                   "Granularity must be in ['module', 'class', 'method'].",
                   << >>))
    /\ UNCHANGED <<test_suites, suite_idx, pkg_name, groups_seen, group,
                   except_left, name_tree, full_method_names, test_cases_names,
                   res_suites, load_idx, suites_dict, result, expected,
                   workers_conf, parse_name, parse_out>>

\* _del_except_classes_in_name_tree: one turn of its loop
DelExceptClass ==
    /\ pc = "del_classes"
    /\ \E except_cls_name \in except_left :
          LET parsed == GetClsNameParts(except_cls_name)
              out == DelClsInNameTree(name_tree, parsed.parts[1],
                                      parsed.parts[2])
              left == except_left \ {except_cls_name}
          IN  IF parsed.err # NoError
              THEN Raise(parsed.err) /\ UNCHANGED <<name_tree, except_left>>
              ELSE IF out.err # NoError
              THEN Raise(out.err) /\ UNCHANGED <<name_tree, except_left>>
              ELSE /\ name_tree' = out.tree
                   /\ IF left # {}
                      THEN pc' = "del_classes" /\ except_left' = left
                      ELSE /\ pc' = StartDelMethods(group).pc
                           /\ except_left' = StartDelMethods(group).left
                   /\ UNCHANGED err
    /\ UNCHANGED <<test_suites, suite_idx, pkg_name, groups_seen, group,
                   full_method_names, test_cases_names, res_suites, load_idx,
                   suites_dict, result, expected, workers_conf, parse_name,
                   parse_out>>

\* _del_except_methods_in_name_tree: one turn of its loop
DelExceptMethod ==
    /\ pc = "del_methods"
    /\ \E except_mth_name \in except_left :
          LET parsed == GetMthNameParts(except_mth_name)
              out == DelMthInNameTree(name_tree, parsed.parts[1],
                                      parsed.parts[2], parsed.parts[3])
              left == except_left \ {except_mth_name}
          IN  IF parsed.err # NoError
              THEN Raise(parsed.err) /\ UNCHANGED <<name_tree, except_left>>
              ELSE IF out.err # NoError
              THEN Raise(out.err) /\ UNCHANGED <<name_tree, except_left>>
              ELSE /\ name_tree' = out.tree
                   /\ except_left' = left
                   /\ pc' = IF left # {} THEN "del_methods" ELSE "flatten"
                   /\ UNCHANGED err
    /\ UNCHANGED <<test_suites, suite_idx, pkg_name, groups_seen, group,
                   full_method_names, test_cases_names, res_suites, load_idx,
                   suites_dict, result, expected, workers_conf, parse_name,
                   parse_out>>

\* lines 104 and 115: _get_full_method_names_from_tree returns its list
Flatten ==
    /\ pc = "flatten"
    /\ \E names \in GetFullMethodNamesFromTree(name_tree, pkg_name) :
          full_method_names' = names
    /\ pc' = "extend"
    /\ UNCHANGED <<test_suites, suite_idx, pkg_name, groups_seen, group,
                   except_left, name_tree, test_cases_names, res_suites,
                   load_idx, suites_dict, result, err, expected, workers_conf,
                   parse_name, parse_out>>

\* lines 104, 115 and 123: test_cases_names.extend(...), and the loop goes on
ExtendNames ==
    /\ pc = "extend"
    /\ test_cases_names' = Extend(test_cases_names, full_method_names)
    /\ full_method_names' = << >>
    /\ pc' = "groups"
    /\ UNCHANGED <<test_suites, suite_idx, pkg_name, groups_seen, group, except_left,
                   name_tree, res_suites, load_idx, suites_dict, result, err,
                   expected, workers_conf, parse_name, parse_out>>

\* lines 126-131: the suite has no more groups
FinishSuite ==
    /\ pc = "groups"
    /\ \E workers \in WorkerConfs :
          /\ res_suites' =
                Put(res_suites, test_suites[suite_idx],
                    [package |-> PackageOf(pkg_name),
                     test_case_names |-> Range(test_cases_names),
                     max_workers |-> MaxWorkersOf(workers)])
          /\ workers_conf' = Put(workers_conf, test_suites[suite_idx], workers)
    /\ pc' = "suites"
    /\ UNCHANGED <<test_suites, suite_idx, pkg_name, groups_seen, group,
                   except_left, name_tree, full_method_names, test_cases_names,
                   load_idx, suites_dict, result, err, expected, parse_name,
                   parse_out>>

(***************************************************************************)
(* load_test_from_dict.                                                    *)
(***************************************************************************)
\* lines 132-134 and 33: the parse returns and the load loop starts
ParseReturn ==
    /\ pc = "suites"
    /\ suite_idx = Len(test_suites)
    /\ pc' = "load"
    /\ UNCHANGED <<test_suites, suite_idx, pkg_name, groups_seen, group,
                   except_left, name_tree, full_method_names, test_cases_names,
                   res_suites, load_idx, suites_dict, result, err, expected,
                   workers_conf, parse_name, parse_out>>

\* mutant: a suite without names is an error
LoadTestsFromFullNamesRefusingEmpty(names) ==
    LET raising == {x \in names : MakeCaseFromFullName(x).err # NoError}
    IN  IF names = {}
        THEN {[err |-> Error("ValueError", "Test suite %r is empty.", << >>),
               cases |-> {}]}
        ELSE IF raising # {}
        THEN {[err |-> MakeCaseFromFullName(x).err, cases |-> {}] :
                 x \in raising}
        ELSE {[err |-> NoError,
               cases |-> {Get(MakeCaseFromFullName(x).case) :
                             x \in {y \in names :
                                       IsPresent(MakeCaseFromFullName(y).case)}}]}

\* load_tests_from_full_names: [err, cases] for each order the names can be
\* visited in; the first name that raises ends the call
LoadTestsFromFullNames(names) ==
    LET raising == {x \in names : MakeCaseFromFullName(x).err # NoError}
    IN  IF raising # {}
        THEN {[err |-> MakeCaseFromFullName(x).err, cases |-> {}] :
                 x \in raising}
        ELSE {[err |-> NoError,
               cases |-> {Get(MakeCaseFromFullName(x).case) :
                             x \in {y \in names :
                                       IsPresent(MakeCaseFromFullName(y).case)}}]}

\* lines 33-44: one turn of the loop over the parsed suites
LoadSuite ==
    /\ pc = "load"
    /\ load_idx < Len(test_suites)
    /\ LET suite_name == test_suites[load_idx + 1]
           content == res_suites[suite_name]
       IN  \E out \in LoadTestsFromFullNames(content.test_case_names) :
              IF out.err # NoError
              THEN Raise(out.err) /\ UNCHANGED <<suites_dict, load_idx>>
              ELSE /\ suites_dict' =
                         Put(suites_dict, suite_name,
                             [package |-> content.package,
                              suite |-> out.cases,
                              max_workers |-> content.max_workers])
                   /\ load_idx' = load_idx + 1
                   /\ UNCHANGED <<pc, err>>
    /\ UNCHANGED <<test_suites, suite_idx, pkg_name, groups_seen, group,
                   except_left, name_tree, full_method_names, test_cases_names,
                   res_suites, result, expected, workers_conf, parse_name,
                   parse_out>>

\* line 45: return suites_dict
Return ==
    /\ pc = "load"
    /\ load_idx = Len(test_suites)
    /\ result' = Present(suites_dict)
    /\ pc' = "returned"
    /\ UNCHANGED <<test_suites, suite_idx, pkg_name, groups_seen, group,
                   except_left, name_tree, full_method_names, test_cases_names,
                   res_suites, load_idx, suites_dict, err, expected,
                   workers_conf, parse_name, parse_out>>

Next ==
    \/ ParseNextSuite
    \/ ReadGroup
    \/ SkipDisabled
    \/ ModuleGroup
    \/ ClassGroup
    \/ MethodGroup
    \/ OtherGranularity
    \/ DelExceptClass
    \/ DelExceptMethod
    \/ Flatten
    \/ ExtendNames
    \/ FinishSuite
    \/ ParseReturn
    \/ LoadSuite
    \/ Return

Spec == Init /\ [][Next]_vars

(***************************************************************************)
(* NameParser on its own: every name over a small alphabet is parsed.      *)
(***************************************************************************)
ParserAlphabet == {"m", "C", Dot}
ParserNames == UNION {[1..k -> ParserAlphabet] : k \in 0..MaxLen}

ParserInit ==
    /\ pc = "parser"
    /\ test_suites = << >>
    /\ suite_idx = 0
    /\ pkg_name = << >>
    /\ groups_seen = 0
    /\ group = NoGroup
    /\ except_left = {}
    /\ name_tree = EmptyTree
    /\ full_method_names = << >>
    /\ test_cases_names = << >>
    /\ res_suites = << >>
    /\ load_idx = 0
    /\ suites_dict = << >>
    /\ result = Absent
    /\ err = NoError
    /\ expected = {}
    /\ workers_conf = << >>
    /\ parse_name \in ParserNames
    /\ parse_out = NoOut

\* _get_cls_name_parts(parse_name)
ParseClassName ==
    /\ pc = "parser"
    /\ parse_out = NoOut
    /\ parse_out' = [fn |-> "cls", err |-> GetClsNameParts(parse_name).err,
                     parts |-> GetClsNameParts(parse_name).parts]
    /\ UNCHANGED <<pc, test_suites, suite_idx, pkg_name, groups_seen, group,
                   except_left, name_tree, full_method_names, test_cases_names,
                   res_suites, load_idx, suites_dict, result, err, expected,
                   workers_conf, parse_name>>

\* _get_mth_name_parts(parse_name)
ParseMethodName ==
    /\ pc = "parser"
    /\ parse_out = NoOut
    /\ parse_out' = [fn |-> "mth", err |-> GetMthNameParts(parse_name).err,
                     parts |-> GetMthNameParts(parse_name).parts]
    /\ UNCHANGED <<pc, test_suites, suite_idx, pkg_name, groups_seen, group,
                   except_left, name_tree, full_method_names, test_cases_names,
                   res_suites, load_idx, suites_dict, result, err, expected,
                   workers_conf, parse_name>>

ParserNext ==
    \/ ParseClassName
    \/ ParseMethodName

ParserSpec == ParserInit /\ [][ParserNext]_vars

(***************************************************************************)
(* CaseLoader on its own: _make_case_from_full_name is given one name, and *)
(* the loop of load_test_from_dict is run over parsed suites whose names   *)
(* are any names a method-granularity group can hand over.                 *)
(***************************************************************************)
Name_mD_helper == Join(<<Mod_m, Cls_D, Mth_helper>>)
Name_m_main == Join(<<Mod_m, Fn_main>>)
Name_xC_test_a == Join(<<Mod_x, Cls_C, Mth_test_a>>)
Name_mC_test_c == Join(<<Mod_m, Cls_C, Mth_test_c>>)
Name_pmC_test_a == Join(<<Pkg_p, Mod_m, Cls_C, Mth_test_a>>)

\* names of three parts or more: a method, a second method, a static method,
\* an attribute that is no function, a method of a plain class, a name in a
\* module that does not exist, a method of a packaged module
SuiteNamePool ==
    {Name_mC_test_a, Name_mC_test_b, Name_nE_test_c, Name_mC_count,
     Name_mD_helper, Name_xC_test_a, Name_pmC_test_a}

\* and: a module-level function, a class, a module, a missing attribute
CaseNamePool ==
    SuiteNamePool \cup {Name_m_main, Name_mC, Mod_m, Name_mC_test_c}

\* what _parse_tests_from_dict returned: suite name -> content
ParsedSuites(names) ==
    [names -> {[package |-> pkg, test_case_names |-> ns, max_workers |-> 1] :
                  pkg \in {Str_None, Pkg_p}, ns \in UpTo(SuiteNamePool)}]

LoaderInit ==
    /\ \/ /\ pc = "case"
          /\ test_suites = << >>
          /\ res_suites = << >>
       \/ /\ pc = "load"
          /\ test_suites \in SuiteLists
          /\ res_suites \in ParsedSuites(Range(test_suites))
    /\ suite_idx = Len(test_suites)
    /\ pkg_name = << >>
    /\ groups_seen = 0
    /\ group = NoGroup
    /\ except_left = {}
    /\ name_tree = EmptyTree
    /\ full_method_names = << >>
    /\ test_cases_names = << >>
    /\ load_idx = 0
    /\ suites_dict = << >>
    /\ result = Absent
    /\ err = NoError
    /\ expected = {}
    /\ workers_conf = << >>
    /\ parse_name = << >>
    /\ parse_out = NoOut

\* _make_case_from_full_name(name), for a name of the pool
MakeCase ==
    /\ pc = "case"
    /\ parse_out = NoOut
    /\ \E name \in CaseNamePool :
          /\ parse_name' = name
          /\ parse_out' = [fn |-> "case",
                           err |-> MakeCaseFromFullName(name).err,
                           parts |-> MakeCaseFromFullName(name).case]
    /\ UNCHANGED <<pc, test_suites, suite_idx, pkg_name, groups_seen, group,
                   except_left, name_tree, full_method_names, test_cases_names,
                   res_suites, load_idx, suites_dict, result, err, expected,
                   workers_conf>>

LoaderNext ==
    \/ MakeCase
    \/ LoadSuite
    \/ Return

LoaderSpec == LoaderInit /\ [][LoaderNext]_vars

(***************************************************************************)
(* NameTree on its own: _build_name_tree, _del_cls_in_name_tree,           *)
(* _del_mth_in_name_tree and _get_full_method_names_from_tree are called   *)
(* in any order with any arguments, once a first build has made the tree   *)
(* a dict.  parse_out records the call last made: its name, the error it   *)
(* raised, the name parts it was given.                                    *)
(***************************************************************************)
ClassNames == {Cls_C, Cls_D, Cls_E}
MethodNames == {Mth_test_a, Mth_test_b, Mth_test_c, Mth_helper}

\* pkg_name
TreePackages == {<< >>, Pkg_p}

\* filter_cls_names: None, or a set of "module.class" names
TreeFilters == OptUpTo({Name_mC, Name_mD, Name_nE})

TreeInit ==
    /\ pc = "tree"
    /\ test_suites = << >>
    /\ suite_idx = 0
    /\ pkg_name = << >>
    /\ groups_seen = 0
    /\ group = NoGroup
    /\ except_left = {}
    /\ name_tree = EmptyTree
    /\ full_method_names = << >>
    /\ test_cases_names = << >>
    /\ res_suites = << >>
    /\ load_idx = 0
    /\ suites_dict = << >>
    /\ result = Absent
    /\ err = NoError
    /\ expected = {}
    /\ workers_conf = << >>
    /\ parse_name = << >>
    /\ parse_out = NoOut

\* _build_name_tree(pkg, mod_names, filter_cls_names)
TreeBuild ==
    /\ pc = "tree"
    /\ \E pkg \in TreePackages, mod_names \in UpTo(ModulePool),
          filter_cls_names \in TreeFilters :
          \E out \in BuildOutcomes(pkg, mod_names, filter_cls_names) :
              /\ name_tree' = out.tree
              /\ pkg_name' = pkg
              /\ parse_out' = [fn |-> "build", err |-> out.err, parts |-> << >>]
    /\ UNCHANGED <<pc, test_suites, suite_idx, groups_seen, group, except_left,
                   full_method_names, test_cases_names, res_suites, load_idx,
                   suites_dict, result, err, expected, workers_conf,
                   parse_name>>

\* _del_cls_in_name_tree(mod_name, cls_name)
TreeDelCls ==
    /\ pc = "tree"
    /\ parse_out # NoOut
    /\ \E mod_name \in ModulePool, cls_name \in ClassNames :
          LET out == DelClsInNameTree(name_tree, mod_name, cls_name)
          IN  /\ name_tree' = out.tree
              /\ parse_out' = [fn |-> "del_cls", err |-> out.err,
                               parts |-> <<mod_name, cls_name>>]
    /\ UNCHANGED <<pc, test_suites, suite_idx, pkg_name, groups_seen, group,
                   except_left, full_method_names, test_cases_names,
                   res_suites, load_idx, suites_dict, result, err, expected,
                   workers_conf, parse_name>>

\* _del_mth_in_name_tree(mod_name, cls_name, mth_name)
TreeDelMth ==
    /\ pc = "tree"
    /\ parse_out # NoOut
    /\ \E mod_name \in ModulePool, cls_name \in ClassNames,
          mth_name \in MethodNames :
          LET out == DelMthInNameTree(name_tree, mod_name, cls_name, mth_name)
          IN  /\ name_tree' = out.tree
              /\ parse_out' = [fn |-> "del_mth", err |-> out.err,
                               parts |-> <<mod_name, cls_name, mth_name>>]
    /\ UNCHANGED <<pc, test_suites, suite_idx, pkg_name, groups_seen, group,
                   except_left, full_method_names, test_cases_names,
                   res_suites, load_idx, suites_dict, result, err, expected,
                   workers_conf, parse_name>>

\* _get_full_method_names_from_tree(pkg)
TreeFlatten ==
    /\ pc = "tree"
    /\ parse_out # NoOut
    /\ \E pkg \in TreePackages :
          /\ pkg_name' = pkg
          /\ \E names \in GetFullMethodNamesFromTree(name_tree, pkg) :
                full_method_names' = names
    /\ parse_out' = [fn |-> "flatten", err |-> NoError, parts |-> << >>]
    /\ UNCHANGED <<pc, test_suites, suite_idx, groups_seen, group, except_left,
                   name_tree, test_cases_names, res_suites, load_idx,
                   suites_dict, result, err, expected, workers_conf,
                   parse_name>>

TreeNext ==
    \/ TreeBuild
    \/ TreeDelCls
    \/ TreeDelMth
    \/ TreeFlatten

TreeSpec == TreeInit /\ [][TreeNext]_vars

(***************************************************************************)
(* Properties.                                                             *)
(***************************************************************************)
\* group is a group of the suite in hand (it outlives its suite otherwise)
GroupInHand == groups_seen >= 1

\* the call raised while it was resolving the groups of a suite
ParseRaised ==
    /\ pc = "raised"
    /\ suite_idx >= 1
    /\ test_suites[suite_idx] \notin DOMAIN res_suites

\* C1: when a module-granularity group has been resolved, the names it is
\* about to contribute are exactly [package.]m.C.x for the test-prefixed
\* methods x of the classes C of its modules m, less the methods of the
\* classes in except_classes, less the methods in except_methods; and such a
\* group raises only when it has a configuration error.
C1_ModuleGroupResolvesExactly ==
    (GroupInHand /\ group.granularity = "module" /\ ~group.disable) =>
        /\ pc = "extend" =>
              /\ ValidGroup(pkg_name, group)
              /\ Range(full_method_names) = ExpectedNames(pkg_name, group)
        /\ ParseRaised => ~ValidGroup(pkg_name, group)

\* C1's case: module m, except_methods = [m.C.test_b], resolved to {m.C.test_a}
C1_Witness ==
    /\ pc = "extend"
    /\ pkg_name = << >>
    /\ group = Group(FALSE, "module", {Mod_m}, {}, {}, Absent,
                     Present({Name_mC_test_b}))
    /\ Range(full_method_names) = {Name_mC_test_a}

\* a dotted name of 2 or 3 parts is in the tree
InTree(tree, parts) ==
    /\ parts[1] \in DOMAIN tree
    /\ parts[2] \in DOMAIN tree[parts[1]]
    /\ Len(parts) = 3 => parts[3] \in tree[parts[1]][parts[2]]

\* the identifier at the outermost level at which the name is missing
OutermostMissing(tree, parts) ==
    IF parts[1] \notin DOMAIN tree THEN parts[1]
    ELSE IF parts[2] \notin DOMAIN tree[parts[1]] THEN parts[2]
    ELSE parts[3]

\* C2: a turn of an exclusion loop either removes an entry that was in the
\* tree, or raises; when it raises for a well-formed entry, that entry is not
\* in the tree, the tree is left as it was, and the ValueError names the entry
\* and the identifier at the outermost missing level (module, else class,
\* else method).
C2_MissingExclusionIsAnError ==
    [][ (pc \in {"del_classes", "del_methods"}) =>
          LET arity == IF pc = "del_classes" THEN 2 ELSE 3
          IN  IF pc' = "raised"
              THEN /\ name_tree' = name_tree
                   /\ \E e \in except_left :
                         \/ /\ ~WellFormed(e, arity)
                            /\ err'.args = <<e>>
                         \/ /\ WellFormed(e, arity)
                            /\ ~InTree(name_tree, Split(e))
                            /\ err'.type = "ValueError"
                            /\ err'.args[1] = e
                            /\ err'.args[2] = OutermostMissing(name_tree, Split(e))
              ELSE \E e \in except_left :
                         /\ WellFormed(e, arity)
                         /\ InTree(name_tree, Split(e))
                         /\ ~InTree(name_tree', Split(e))
      ]_vars

\* C2's case: class D is missing from module m, which is in the tree
C2_Witness ==
    /\ pc = "raised"
    /\ Mod_m \in DOMAIN name_tree
    /\ group.except_classes = Present({Name_mD})
    /\ err.type = "ValueError"
    /\ err.args = <<Name_mD, Cls_D, Mod_m>>

\* C3: when a class-granularity group has been resolved, the names it is
\* about to contribute are exactly the test-prefixed methods of the classes
\* it names, less except_methods: each name is a method of a named class; and
\* such a group raises only when it has a configuration error (a named class
\* without test methods is none).
C3_ClassGroupResolvesExactly ==
    (GroupInHand /\ group.granularity = "class" /\ ~group.disable) =>
        /\ pc = "extend" =>
              /\ Range(full_method_names) = ExpectedNames(pkg_name, group)
              /\ \A name \in Range(full_method_names) :
                    \E c \in group.classes :
                        StartsWith(name, Dotted(pkg_name, c) \o <<Dot>>)
        /\ ParseRaised => ~ValidGroup(pkg_name, group)

\* C3's case: m.C and m.D are named, D has no test method
C3_Witness ==
    /\ pc = "extend"
    /\ pkg_name = << >>
    /\ group.granularity = "class"
    /\ group.classes = {Name_mC, Name_mD}
    /\ group.except_methods = Absent
    /\ Range(full_method_names) = {Name_mC_test_a, Name_mC_test_b}

\* C4: a method-granularity group leaves the name tree as it is, and either
\* raises for a name that has not 3 segments or contributes exactly its
\* names, each with 'package.' before it when the suite has a package.
C4_MethodGroupTakesNamesAsListed ==
    [][ (pc = "dispatch" /\ ~group.disable /\ group.granularity = "method") =>
          /\ name_tree' = name_tree
          /\ pc' \in {"extend", "raised"}
          /\ pc' = "raised" => \E x \in group.methods : ~WellFormed(x, 3)
          /\ pc' = "extend" =>
                /\ \A x \in group.methods : WellFormed(x, 3)
                /\ Len(full_method_names') = Cardinality(group.methods)
                /\ Range(full_method_names') =
                      {IF pkg_name = << >> THEN x ELSE pkg_name \o <<Dot>> \o x :
                          x \in group.methods}
      ]_vars

\* C4's case: a method group of a suite with package p, after a group that
\* built a tree
C4_Witness ==
    /\ pc = "extend"
    /\ group.granularity = "method"
    /\ pkg_name = Pkg_p
    /\ name_tree # EmptyTree
    /\ Range(full_method_names) =
          {Join(<<Pkg_p, Name_mC_test_a>>), Join(<<Pkg_p, Name_nE_test_c>>)}

\* C5: the names a suite resolves to are the union of what its groups that
\* are not disabled are meant to contribute, whatever the order the groups
\* were read in; while the suite is resolved, no other name is gathered.
C5_SuiteIsUnionOfGroups ==
    /\ (pc \in {"groups", "dispatch", "del_classes", "del_methods", "flatten",
                "extend"})
          => Range(test_cases_names) \subseteq expected
    /\ (pc = "suites" /\ suite_idx >= 1) =>
          res_suites[test_suites[suite_idx]].test_case_names = expected

\* C5's case: two groups contributed the same name, the suite holds it once
C5_Witness ==
    /\ pc = "suites"
    /\ suite_idx >= 1
    /\ Len(test_cases_names) > Cardinality(Range(test_cases_names))
    /\ res_suites[test_suites[suite_idx]].test_case_names = expected

\* C6: the step taken for a disabled group goes back to the group loop and
\* changes neither the names gathered, nor the name tree, nor the suites
\* resolved, and raises nothing, whatever else the group holds.
C6_DisabledGroupIsSkipped ==
    [][ (pc = "dispatch" /\ group.disable) =>
          /\ pc' = "groups"
          /\ err' = NoError
          /\ name_tree' = name_tree
          /\ test_cases_names' = test_cases_names
          /\ full_method_names' = full_method_names
          /\ res_suites' = res_suites
      ]_vars

\* C6's case: a disabled group of no legal granularity was skipped, after a
\* group that built a tree and contributed names
C6_Witness ==
    /\ pc = "groups"
    /\ group.disable
    /\ group.granularity = "package"
    /\ err = NoError
    /\ name_tree # EmptyTree
    /\ test_cases_names # << >>

\* the name has exactly k segments between dots, none of them empty
NonEmptySegments(name, k) ==
    LET dots == {i \in 1..Len(name) : name[i] = Dot}
    IN  /\ Len(name) > 0
        /\ Cardinality(dots) = k - 1
        /\ 1 \notin dots
        /\ Len(name) \notin dots
        /\ \A i \in dots : i + 1 \notin dots

\* C7: parseClassName succeeds, with the exact split, if and only if the
\* name has exactly 2 non-empty segments, and fails for every other name;
\* parseMethodName likewise with 3.
C7_ParserNeedsNonEmptySegments ==
    /\ parse_out.fn = "cls" =>
          IF NonEmptySegments(parse_name, 2)
          THEN /\ parse_out.err = NoError
               /\ Len(parse_out.parts) = 2
               /\ Join(parse_out.parts) = parse_name
          ELSE parse_out.err.type = "ValueError"
    /\ parse_out.fn = "mth" =>
          IF NonEmptySegments(parse_name, 3)
          THEN /\ parse_out.err = NoError
               /\ Len(parse_out.parts) = 3
               /\ Join(parse_out.parts) = parse_name
          ELSE parse_out.err.type = "ValueError"

\* C8: every resolved suite has max_workers >= 1: the configured value, and
\* 1 when the suite configures none.
C8_MaxWorkersAtLeastOne ==
    \A s \in DOMAIN res_suites :
        /\ res_suites[s].max_workers >= 1
        /\ ~IsPresent(workers_conf[s]) => res_suites[s].max_workers = 1
        /\ IsPresent(workers_conf[s]) =>
              res_suites[s].max_workers = DigitsValue(Get(workers_conf[s]).text)
        /\ s \in DOMAIN suites_dict =>
              suites_dict[s].max_workers = res_suites[s].max_workers

\* C9: the step taken for a group that is not disabled and whose granularity
\* is none of 'module', 'class', 'method' raises the ValueError that lists the
\* three, and adds no name; and no step follows a raise: the load does not
\* complete.
C9_OtherGranularityIsRejected ==
    [][ /\ pc # "raised"
        /\ (pc = "dispatch" /\ ~group.disable
            /\ group.granularity \notin {"module", "class", "method"}) =>
              /\ pc' = "raised"
              /\ err'.type = "ValueError"
              /\ err'.what =
                    "Granularity must be in ['module', 'class', 'method']."
              /\ test_cases_names' = test_cases_names
              /\ full_method_names' = full_method_names
              /\ res_suites' = res_suites
              /\ result' = Absent
      ]_vars

\* C9's case: a second group of granularity 'package' raised, and the names
\* of the first group were never returned
C9_Witness ==
    /\ pc = "raised"
    /\ ~group.disable
    /\ group.granularity = "package"
    /\ err.what = "Granularity must be in ['module', 'class', 'method']."
    /\ test_cases_names # << >>
    /\ result = Absent

\* C10: a group with a configuration error never gets past its own
\* resolution, so nothing is resolved or loaded for its suite; once an
\* error is raised it is kept and load_test_from_dict returns no mapping;
\* a mapping is returned only with no error.
C10_ErrorsPropagate ==
    /\ (GroupInHand /\ ~group.disable /\ ~ValidGroup(pkg_name, group)) =>
          /\ pc \in {"dispatch", "del_classes", "del_methods", "raised"}
          /\ test_suites[suite_idx] \notin DOMAIN res_suites
          /\ test_suites[suite_idx] \notin DOMAIN suites_dict
          /\ result = Absent
    /\ pc = "raised" => (err # NoError /\ result = Absent)
    /\ err # NoError => pc = "raised"
    /\ IsPresent(result) => (err = NoError /\ pc = "returned")

\* C10's case: the second suite's group excluded a method that is not in its
\* tree; the first suite had been resolved, and nothing is returned
C10_Witness ==
    /\ pc = "raised"
    /\ suite_idx = 2
    /\ "S1" \in DOMAIN res_suites
    /\ err.type = "ValueError"
    /\ err.args = <<Name_mC_test_b, Mod_m>>
    /\ result = Absent

\* the dotted name resolves to an object
Resolves(name) == Split(name) \in DOMAIN RuntimeObjects

\* what loading one name is meant to give, read off the kind of the object
\* and of its immediate owner
Outcome(name) ==
    LET parts == Split(name)
        kind == RuntimeObjects[parts]
        owner == IF Len(parts) >= 2
                 THEN RuntimeObjects[SubSeq(parts, 1, Len(parts) - 1)]
                 ELSE "none"
    IN  IF ~Resolves(name) THEN "unresolved"
        ELSE IF kind \notin {"function", "staticmethod"} THEN "TypeError"
        ELSE IF owner # "testcase_class" THEN "absent"
        ELSE IF kind = "staticmethod" THEN "absent"
        ELSE "case"

\* C11: for a name that resolves, _make_case_from_full_name raises TypeError
\* when the object is no function, returns None when the owner is no
\* test-case class or the method is static, and returns one case bound to
\* the name otherwise; a loaded suite holds exactly the cases of its names
\* that are not absent, and a name that raises ends the whole load: the
\* suite it belongs to is never stored and nothing is returned.
C11_LoaderOutcomes ==
    /\ (parse_out.fn = "case" /\ Resolves(parse_name)) =>
          CASE Outcome(parse_name) = "TypeError" ->
                 parse_out.err.type = "TypeError" /\ parse_out.parts = Absent
            [] Outcome(parse_name) = "absent" ->
                 parse_out.err = NoError /\ parse_out.parts = Absent
            [] Outcome(parse_name) = "case" ->
                 parse_out.err = NoError /\ parse_out.parts = Present(parse_name)
    /\ pc \in {"load", "returned", "raised"} =>
          \A i \in 1..load_idx :
              LET names == res_suites[test_suites[i]].test_case_names
              IN  /\ \A n \in names : Outcome(n) \in {"absent", "case"}
                  /\ suites_dict[test_suites[i]].suite =
                        {n \in names : Outcome(n) = "case"}
    /\ (pc = "raised" /\ load_idx < Len(test_suites)
        /\ test_suites[load_idx + 1] \in DOMAIN res_suites) =>
          /\ \E n \in res_suites[test_suites[load_idx + 1]].test_case_names :
                Outcome(n) \in {"unresolved", "TypeError"}
          /\ test_suites[load_idx + 1] \notin DOMAIN suites_dict
          /\ result = Absent

\* C11's case: a suite of a method and a static method was loaded as one
\* case, and a suite of a plain class's method as none
C11_Witness ==
    /\ pc = "returned"
    /\ test_suites = <<"S1", "S2">>
    /\ res_suites["S1"].test_case_names = {Name_mC_test_a, Name_nE_test_c}
    /\ res_suites["S2"].test_case_names = {Name_mD_helper}
    /\ Get(result)["S1"].suite = {Name_mC_test_a}
    /\ Get(result)["S2"].suite = {}

\* the load loop is about to load a suite that resolved to no name
EmptySuiteNext ==
    /\ pc = "load"
    /\ load_idx < Len(test_suites)
    /\ res_suites[test_suites[load_idx + 1]].test_case_names = {}

\* C12: the step that loads a suite resolved to no name raises nothing and
\* stores an entry with an empty loaded suite; and a returned mapping has
\* exactly the names listed in test['suites'] as its keys, the suites that
\* resolved to no name among them, each with an empty loaded suite.
C12_EmptySuiteIsKept ==
    [][ /\ EmptySuiteNext =>
              /\ pc' = "load"
              /\ err' = NoError
              /\ test_suites[load_idx + 1] \in DOMAIN suites_dict'
              /\ suites_dict'[test_suites[load_idx + 1]].suite = {}
        /\ IsPresent(result') =>
              /\ DOMAIN Get(result') = Range(test_suites)
              /\ \A s \in Range(test_suites) :
                    res_suites[s].test_case_names = {} =>
                        Get(result')[s].suite = {}
      ]_vars

\* C12's case: the first suite resolved to no name, the second to some, and
\* both are in the mapping returned
C12_Witness ==
    /\ pc = "returned"
    /\ test_suites = <<"S1", "S2">>
    /\ res_suites["S1"].test_case_names = {}
    /\ res_suites["S2"].test_case_names # {}
    /\ DOMAIN Get(result) = {"S1", "S2"}
    /\ Get(result)["S1"].suite = {}
    /\ Get(result)["S2"].suite # {}

\* C13: a suite that has a non-empty package name never gets the 'package'
\* value that a suite without a package gets: a suite just resolved without
\* a package has 'None' in the field, a suite just resolved with a package
\* has its package name there, and that is never 'None'.
C13_PackageSentinelIsDistinct ==
    (pc = "suites" /\ suite_idx >= 1) =>
        LET package == res_suites[test_suites[suite_idx]].package
        IN  /\ pkg_name = << >> => package = Str_None
            /\ pkg_name # << >> =>
                  /\ package = pkg_name
                  /\ package # Str_None

\* the (module, class, method) leaves of a tree
Leaves(tree) ==
    UNION { UNION { { <<m, c, x>> : x \in tree[m][c] } : c \in DOMAIN tree[m] }
            : m \in DOMAIN tree }

\* C14: whatever calls of _build_name_tree, _del_cls_in_name_tree and
\* _del_mth_in_name_tree have been made, with or without error, the tree has
\* no module without classes and no class without methods.
C14_NoEmptyBranch ==
    \A m \in DOMAIN name_tree :
        /\ DOMAIN name_tree[m] # {}
        /\ \A c \in DOMAIN name_tree[m] : name_tree[m][c] # {}

\* C14's case: the tree was built from m and n, deleting class m.C left m
\* without classes, and m is gone
C14_Witness ==
    /\ pc = "tree"
    /\ parse_out.fn = "del_cls"
    /\ parse_out.err = NoError
    /\ parse_out.parts = <<Mod_m, Cls_C>>
    /\ DOMAIN name_tree = {Mod_n}

\* C15: a call of _del_cls_in_name_tree(m, C) that raises nothing removes
\* the leaves of class C of module m, of which there are some, and no other
\* leaf, from the tree and so from what flattening gives; a call of
\* _del_mth_in_name_tree(m, C, x) that raises nothing removes the leaf
\* m.C.x, which was there, and no other.
C15_DeletionRemovesExactly ==
    [][ /\ (parse_out'.fn = "del_cls" /\ parse_out'.err = NoError) =>
              LET gone == {l \in Leaves(name_tree) :
                              /\ l[1] = parse_out'.parts[1]
                              /\ l[2] = parse_out'.parts[2]}
              IN  /\ gone # {}
                  /\ Leaves(name_tree') = Leaves(name_tree) \ gone
                  /\ \A before \in GetFullMethodNamesFromTree(name_tree, pkg_name),
                        after \in GetFullMethodNamesFromTree(name_tree', pkg_name) :
                        Range(after) =
                           Range(before) \ {Dotted(pkg_name, Join(l)) : l \in gone}
        /\ (parse_out'.fn = "del_mth" /\ parse_out'.err = NoError) =>
              /\ parse_out'.parts \in Leaves(name_tree)
              /\ Leaves(name_tree') = Leaves(name_tree) \ {parse_out'.parts}
              /\ \A before \in GetFullMethodNamesFromTree(name_tree, pkg_name),
                    after \in GetFullMethodNamesFromTree(name_tree', pkg_name) :
                    Range(after) =
                       Range(before) \ {Dotted(pkg_name, Join(parse_out'.parts))}
      ]_vars

\* C15's case: m.C.test_a was deleted from a tree of m and n; m.C.test_b and
\* n.E.test_c are still there
C15_Witness ==
    /\ pc = "tree"
    /\ parse_out.fn = "del_mth"
    /\ parse_out.err = NoError
    /\ parse_out.parts = <<Mod_m, Cls_C, Mth_test_a>>
    /\ Leaves(name_tree) = {<<Mod_m, Cls_C, Mth_test_b>>,
                            <<Mod_n, Cls_E, Mth_test_c>>}

\* C17: a call of _get_full_method_names_from_tree leaves the tree as it is
\* and returns a list with one entry for each leaf: as long as the number of
\* leaves, without duplicates, each entry [package.]module.class.method of a
\* leaf; and a second call right after the first returns the same set.
C17_FlattenVisitsEachLeafOnce ==
    [][ parse_out'.fn = "flatten" =>
          /\ name_tree' = name_tree
          /\ Len(full_method_names') = Cardinality(Leaves(name_tree))
          /\ Cardinality(Range(full_method_names')) = Len(full_method_names')
          /\ \A i \in 1..Len(full_method_names') :
                \E l \in Leaves(name_tree) :
                    Split(full_method_names'[i]) =
                       IF pkg_name' = << >> THEN l ELSE <<pkg_name'>> \o l
          /\ (parse_out.fn = "flatten" /\ pkg_name' = pkg_name) =>
                Range(full_method_names') = Range(full_method_names)
      ]_vars

\* C17's case: a tree of three leaves in two modules was flattened
C17_Witness ==
    /\ pc = "tree"
    /\ parse_out.fn = "flatten"
    /\ pkg_name = << >>
    /\ Cardinality(Leaves(name_tree)) = 3
    /\ Range(full_method_names) =
          {Name_mC_test_a, Name_mC_test_b, Name_nE_test_c}

\* a group of granularity 'module' or 'class' of the suite is being resolved
TreeGroupInHand ==
    /\ GroupInHand
    /\ ~group.disable
    /\ group.granularity \in {"module", "class"}

\* the "module.class" name of the class of a leaf
ClassOf(l) == Join(<<l[1], l[2]>>)

\* C16: while a module- or class-granularity group is resolved, after its
\* build, every leaf of the tree is a leaf the group itself includes under
\* the suite's package (none is left from an earlier group or suite); a
\* group gets to flattening only when each of its exclusions names a leaf
\* or a class that the group itself includes; and the names it contributes
\* are those computed from the group and the package alone.
C16_TreeIsRebuiltPerGroup ==
    TreeGroupInHand =>
        /\ pc \in {"del_classes", "del_methods", "flatten", "extend"} =>
              Leaves(name_tree) \subseteq IncludedLeaves(pkg_name, group)
        /\ pc \in {"flatten", "extend"} =>
              /\ \A x \in OptSet(group.except_methods) :
                    \E l \in IncludedLeaves(pkg_name, group) : Join(l) = x
              /\ \A c \in OptSet(group.except_classes) :
                    \E l \in IncludedLeaves(pkg_name, group) : ClassOf(l) = c
        /\ pc = "extend" =>
              Range(full_method_names) = ExpectedNames(pkg_name, group)

\* C16's case: the first suite resolved n.E.test_c; the module group of the
\* second suite names m only and contributes the methods of m only
C16_Witness ==
    /\ pc = "extend"
    /\ suite_idx = 2
    /\ Name_nE_test_c \in res_suites["S1"].test_case_names
    /\ group = Group(FALSE, "module", {Mod_m}, {}, {}, Absent, Absent)
    /\ pkg_name = << >>
    /\ Range(full_method_names) = {Name_mC_test_a, Name_mC_test_b}

\* C18: in a module-granularity group, while except_classes is applied no
\* entry of except_methods has been applied; while except_methods is applied
\* every class of except_classes is gone from the tree; at flattening both
\* are applied; and a group whose except_methods names a method of a class
\* that is in its except_classes never gets to flattening: the class is not
\* in the tree when that entry is applied.
C18_ClassesBeforeMethods ==
    (GroupInHand /\ ~group.disable /\ group.granularity = "module") =>
        LET exc == OptSet(group.except_classes)
            exm == OptSet(group.except_methods)
            clash == {x \in exm : /\ WellFormed(x, 3)
                                  /\ Join(SubSeq(Split(x), 1, 2)) \in exc}
        IN  /\ pc = "del_classes" =>
                  /\ except_left \subseteq exc
                  /\ {l \in IncludedLeaves(pkg_name, group) : ClassOf(l) \notin exc}
                        \subseteq Leaves(name_tree)
            /\ pc = "del_methods" =>
                  /\ except_left \subseteq exm
                  /\ \A l \in Leaves(name_tree) : ClassOf(l) \notin exc
                  /\ \A x \in clash : ~InTree(name_tree, Split(x))
            /\ pc \in {"flatten", "extend"} =>
                  /\ \A l \in Leaves(name_tree) :
                        ClassOf(l) \notin exc /\ Join(l) \notin exm
                  /\ clash = {}

\* C18's case: modules m and n, except_classes = [m.C], except_methods =
\* [m.C.test_a]: the class went first, and m with it, so the method entry
\* found no module m
C18_Witness ==
    /\ pc = "raised"
    /\ group.granularity = "module"
    /\ group.except_classes = Present({Name_mC})
    /\ group.except_methods = Present({Name_mC_test_a})
    /\ DOMAIN name_tree = {Mod_n}
    /\ err.args = <<Name_mC_test_a, Mod_m>>

\* two outcomes [tree, err] of a batch of exclusions are the same: both
\* succeed with the same tree, or both fail naming the same missing
\* identifier
SameOutcome(a, b) ==
    IF a.err = NoError
    THEN b.err = NoError /\ a.tree = b.tree
    ELSE b.err # NoError /\ a.err.args[2] = b.err.args[2]

\* C19: when the loop over a group's except_classes, or over its
\* except_methods, is about to start on well-formed entries, every order in
\* which the set can be iterated gives the same outcome.
C19_ExclusionOrderDoesNotMatter ==
    /\ (pc = "del_classes" /\ except_left = OptSet(group.except_classes)
        /\ \A e \in except_left : WellFormed(e, 2)) =>
          \A o1, o2 \in Orders(except_left) :
              SameOutcome(DelExceptClassesInNameTree(name_tree, o1),
                          DelExceptClassesInNameTree(name_tree, o2))
    /\ (pc = "del_methods" /\ except_left = OptSet(group.except_methods)
        /\ \A e \in except_left : WellFormed(e, 3)) =>
          \A o1, o2 \in Orders(except_left) :
              SameOutcome(DelExceptMethodsInNameTree(name_tree, o1),
                          DelExceptMethodsInNameTree(name_tree, o2))

=============================================================================
